---- MODULE Spec2Model ----
(***************************************************************************)
(* Tai SDK chunked transfer engine: uploadVideo (resumable, concurrency-   *)
(* limited chunk pool plus manifest upload) and downloadRange (byte-range  *)
(* reconstruction), modelled from src/src/index.ts and src/src/internal.ts.*)
(*                                                                         *)
(* JavaScript runs the synchronous part of an async function atomically;   *)
(* every action below is one such run: from a resumption point to the next *)
(* await.  Promise settlements and the resumption of an awaiting function  *)
(* are separate jobs, so other settlements may run between them.           *)
(***************************************************************************)
EXTENDS Integers, Sequences, FiniteSets, TLC

\* ---------------------------------------------------------------- bounds
\* Chunk size in bytes, scaled down from 10 * 1024 * 1024 (index.ts:44).
CHUNK_SIZE == 2
\* Largest source length in bytes.
MaxTotalSize == 5
\* Largest concurrency value passed in the options object.
MaxConcurrency == 3
\* largest retry count passed to fetchWithRetry on its own
MaxRetries == 3

\* ------------------------------------------------------ program constants
\* opts.concurrency || 3, and concurrency = 3 in the legacy overload.
DefaultConcurrency == 3
\* const IV_LENGTH = 12
IV_LENGTH == 12
\* AES-GCM appends a 128-bit authentication tag to the ciphertext.
GCM_TAG_LENGTH == 16
\* fetchWithRetry(url, init, 3, 1_000, _onRetry) in uploadToWalrus
UploadRetries == 3

VARIABLES
    \* ---- arguments of the uploadVideo call
    totalSize,        \* data.size / data.byteLength
    overload,         \* "legacy" | "options"
    optConcurrency,   \* opts.concurrency as passed by the caller
    existingChunks,   \* caller-supplied records, in the caller's order
    optEncrypt,       \* opts.encrypt
    optKey,           \* opts.encryptionKey: "absent" | "valid" | "badlen"
    \* ---- locals of uploadVideo
    pc,               \* position of uploadVideo's own control flow
    concurrency,      \* normalised concurrency
    encryptionKey,    \* key held in the local, NoKey = undefined
    keysGenerated,    \* number of generateKey calls made so far in the call
    uploadedChunks,   \* shared, growing list of records
    runningBytesUploaded,
    pending,          \* indices to upload, ascending
    nextPending,      \* position in pending of the next index to admit
    executing,        \* indices whose pool promise p is in the Set
    awaited,          \* promises handed to the Promise.race / Promise.all awaited now
    awaitResult,      \* "pending" | "ok" | "err": settlement of that combinator
    manifest,         \* the manifest assembled by uploadVideo, or NoManifest
    task,             \* task[i]: "idle" | "encrypting" | "uploading" | "ok" | "failed"
    keyOf,            \* keyOf[i]: key chunk i was encrypted under, NoKey = none
    attempts,         \* attempts[i]: fetch attempts made by the request of task i
    failKind,         \* failKind[i]: what made task i throw, "none" = it did not
    \* ---- observable effects
    store,            \* blob store: chunk blob id -> bytes
    manifestBlob,     \* the manifest held by the store, or NoManifest
    putLog,           \* transport PUT requests issued by the call, in order
    notes,            \* notifications delivered to the caller, in order
    error,            \* rejection of uploadVideo: "none" or the error kind
    result,           \* value uploadVideo resolved with, or NoUploadResult
    \* ---- downloadRange
    dpc,              \* position of downloadRange
    startByte, endByte,
    dlManifest,       \* manifest parsed by downloadRange
    overlapping,      \* filtered records
    buffers,          \* bytes of the chunks downloaded so far
    dlLog,            \* transport GET requests issued by the call, in order
    dlResult,         \* [data, chunksUsed] or NoResult
    \* ---- a fetchWithRetry call
    frPc,             \* "idle" | "attempt" | "waiting" | "returned" | "failed"
    frRetries,        \* the retries argument
    frAttempt,        \* the loop variable attempt
    frLastError,      \* lastError, NoError = undefined
    frLog,            \* fetches, onRetry calls and back-off waits, in order
    frResult,         \* what the call settled with, or NoFetchResult
    \* ---- a blobExists call
    bePc,             \* "idle" | "head" | "returned" | "failed"
    beOutcome,        \* how the transport settled the HEAD request
    beResult,         \* the boolean blobExists resolved with
    \* ---- TaiClient.uploadVideo
    viaClient,        \* the uploadVideo call is the one TaiClient.uploadVideo makes
    cpc,              \* "init" | "awaiting" | "returned" | "rejected"
    clientLog         \* callbacks invoked by TaiClient.uploadVideo and by the
                      \* callbacks it wraps, in order

uploadVars == <<totalSize, overload, optConcurrency, existingChunks, optEncrypt, optKey,
                pc, concurrency, encryptionKey, keysGenerated, uploadedChunks,
                runningBytesUploaded, pending, nextPending, executing, awaited,
                awaitResult, manifest, task, keyOf, attempts, failKind,
                store, manifestBlob, putLog, notes, error, result>>
downloadVars == <<dpc, startByte, endByte, dlManifest, overlapping, buffers, dlLog, dlResult>>
transportVars == <<frPc, frRetries, frAttempt, frLastError, frLog, frResult,
                   bePc, beOutcome, beResult>>
clientVars == <<viaClient, cpc, clientLog>>
vars == <<uploadVars, downloadVars, transportVars, clientVars>>

\* ------------------------------------------------------------ arithmetic
Min(a, b) == IF a < b THEN a ELSE b
Max(a, b) == IF a > b THEN a ELSE b

RECURSIVE SumSizes(_)
SumSizes(s) == IF s = <<>> THEN 0 ELSE Head(s).size + SumSizes(Tail(s))

\* Math.ceil(totalSize / CHUNK_SIZE)
TotalChunksFloor(size) == size \div CHUNK_SIZE
TotalChunks(size) == (size + CHUNK_SIZE - 1) \div CHUNK_SIZE

\* const start = i * CHUNK_SIZE
ChunkStart(i) == i * CHUNK_SIZE
\* const end = Math.min(start + CHUNK_SIZE, totalSize)
ChunkEnd(i, size) == Min(ChunkStart(i) + CHUNK_SIZE, size)

\* ----------------------------------------------------------------- bytes
\* A byte is a record so that plaintext, IV, ciphertext and tag bytes are
\* comparable and distinct.  Source byte j of the object has value j.
NoKey == [src |-> "none", n |-> 0]
SuppliedKey == [src |-> "supplied", n |-> 0]
BadLengthKey == [src |-> "badlen", n |-> 0]
GeneratedKey(n) == [src |-> "generated", n |-> n]
\* Key under which the blobs of a previous, interrupted call were encrypted
\* when that call generated its own key.
PriorKey == [src |-> "prior", n |-> 0]

PlainByte(j) == [kind |-> "plain", v |-> j, key |-> NoKey]
CipherByte(b, k) == [kind |-> "cipher", v |-> b.v, key |-> k]
IvByte(n, k) == [kind |-> "iv", v |-> n, key |-> k]
TagByte(n, k) == [kind |-> "tag", v |-> n, key |-> k]

\* data.subarray(start, end) / data.slice(start, end)
SourceSlice(start, end) == [j \in 1..Max(end - start, 0) |-> PlainByte(start + j - 1)]

\* encrypt(): packed = [IV][ciphertext + tag]
Encrypt(raw, k) ==
    [n \in 1..IV_LENGTH |-> IvByte(n, k)]
    \o [j \in 1..Len(raw) |-> CipherByte(raw[j], k)]
    \o [n \in 1..GCM_TAG_LENGTH |-> TagByte(n, k)]

\* --------------------------------------------------------------- records
VideoChunk(i, size) ==
    [index |-> i, blobId |-> i, offsetStart |-> ChunkStart(i),
     offsetEnd |-> ChunkEnd(i, size), size |-> ChunkEnd(i, size) - ChunkStart(i)]

\* (a, b) => a.index - b.index is negative: a goes before b
BeforeReversed(a, b) == a.index > b.index
Before(a, b) == a.index < b.index

\* Array.prototype.sort((a, b) => a.index - b.index): stable insertion by index
RECURSIVE InsertByIndex(_, _)
InsertByIndex(c, s) ==
    IF s = <<>> THEN <<c>>
    ELSE IF Before(c, Head(s)) THEN <<c>> \o s
    ELSE <<Head(s)>> \o InsertByIndex(c, Tail(s))

RECURSIVE SortByIndex(_)
SortByIndex(s) ==
    IF s = <<>> THEN <<>>
    ELSE InsertByIndex(s[Len(s)], SortByIndex(SubSeq(s, 1, Len(s) - 1)))

Indices(s) == {s[n].index : n \in 1..Len(s)}

NoManifest == [present |-> FALSE, totalSize |-> 0, chunks |-> <<>>]
NoResult == [present |-> FALSE, data |-> <<>>, chunksUsed |-> 0]
NoRequest == [kind |-> "none", index |-> 0]
NoError == [kind |-> "none", at |-> 0]
NoFetchResult == [kind |-> "none", response |-> "none", error |-> NoError, at |-> 0]
NoUploadResult == [present |-> FALSE, request |-> NoRequest]
\* ---------------------------------------------------------------- inputs
ConcurrencyInputs ==
    {[kind |-> "absent", v |-> 0], [kind |-> "nan", v |-> 0], [kind |-> "frac", v |-> 1]}
    \cup {[kind |-> "int", v |-> n] : n \in -1..MaxConcurrency}

\* Sequences of correct records with pairwise distinct indices in 0..N-1.
ExistingInputs(size) ==
    LET N == TotalChunks(size)
        IdxSeqs == UNION {{s \in [1..n -> 0..(N - 1)] :
                            \A a, b \in 1..n : a # b => s[a] # s[b]} : n \in 0..N}
    IN {[n \in 1..Len(s) |-> VideoChunk(s[n], size)] : s \in IdxSeqs}

\* Bytes held by the store for a chunk uploaded by an earlier call.
PriorBlob(i, size, enc, key) ==
    IF enc
    THEN Encrypt(SourceSlice(ChunkStart(i), ChunkEnd(i, size)),
                 IF key = "valid" THEN SuppliedKey ELSE PriorKey)
    ELSE SourceSlice(ChunkStart(i), ChunkEnd(i, size))

MaxChunks == TotalChunks(MaxTotalSize)
ChunkIds == 0..(MaxChunks - 1)

\* The state before the call; client tells whether uploadVideo is called
\* directly or by TaiClient.uploadVideo.
InitSession(client) ==
    /\ totalSize \in 0..MaxTotalSize
    /\ overload \in {"legacy", "options"}
    /\ optConcurrency \in ConcurrencyInputs
    /\ optEncrypt \in BOOLEAN
    /\ optKey \in {"absent", "valid", "badlen"}
    /\ overload = "legacy" =>
          optConcurrency.kind = "absent" /\ ~optEncrypt /\ optKey = "absent"
    /\ ~optEncrypt => optKey = "absent"
    /\ existingChunks \in ExistingInputs(totalSize)
    /\ pc = "init"
    /\ concurrency = [kind |-> "absent", v |-> 0]
    /\ encryptionKey = NoKey
    /\ keysGenerated = 0
    /\ uploadedChunks = <<>>
    /\ runningBytesUploaded = 0
    /\ pending = <<>>
    /\ nextPending = 1
    /\ executing = {}
    /\ awaited = {}
    /\ awaitResult = "ok"
    /\ manifest = NoManifest
    /\ task = [i \in ChunkIds |-> "idle"]
    /\ keyOf = [i \in ChunkIds |-> NoKey]
    /\ attempts = [i \in ChunkIds |-> 0]
    /\ failKind = [i \in ChunkIds |-> "none"]
    /\ store = [i \in ChunkIds |->
                  IF i \in Indices(existingChunks)
                  THEN PriorBlob(i, totalSize, overload = "options" /\ optEncrypt, optKey)
                  ELSE <<>>]
    /\ manifestBlob = NoManifest
    /\ putLog = <<>>
    /\ notes = <<>>
    /\ error = "none"
    /\ result = NoUploadResult
    /\ dpc = "idle"
    /\ startByte = [fin |-> TRUE, v |-> 0]
    /\ endByte = [fin |-> TRUE, v |-> 0]
    /\ dlManifest = NoManifest
    /\ overlapping = <<>>
    /\ buffers = <<>>
    /\ dlLog = <<>>
    /\ dlResult = NoResult
    /\ frPc = "idle"
    /\ frRetries = 0
    /\ frAttempt = 0
    /\ frLastError = NoError
    /\ frLog = <<>>
    /\ frResult = NoFetchResult
    /\ bePc = "idle"
    /\ beOutcome = "none"
    /\ beResult = FALSE
    /\ viaClient = client
    /\ cpc = "init"
    /\ clientLog = <<>>

Init == InitSession(FALSE)

\* ------------------------------------------------- argument normalisation
\* opts.concurrency || 3: undefined, 0 and NaN are falsy.
Falsy(o) == o.kind \in {"absent", "nan"} \/ (o.kind = "int" /\ o.v = 0)

NormalizeConcurrency(ov, o) ==
    IF ov = "options"
    THEN IF Falsy(o) THEN [kind |-> "int", v |-> DefaultConcurrency] ELSE o
    ELSE [kind |-> "int", v |-> DefaultConcurrency]

\* !Number.isInteger(concurrency) || concurrency < 1  -> throw
ValidConcurrency(c) == c.kind = "int" /\ c.v >= 1

\* shouldEncrypt = opts.encrypt || false (false in the legacy overload)
shouldEncrypt == overload = "options" /\ optEncrypt

\* encryptionKey = opts.encryptionKey
KeyArgument(k) ==
    IF k = "valid" THEN SuppliedKey ELSE IF k = "badlen" THEN BadLengthKey ELSE NoKey

\* for (i = 0; i < totalChunks; i++) if (!uploadedChunks.some(c => c.index === i)) pending.push(i)
RECURSIVE PendingFrom(_, _, _)
PendingFrom(i, N, done) ==
    IF i >= N THEN <<>>
    ELSE IF i \in done THEN PendingFrom(i + 1, N, done)
    ELSE <<i>> \o PendingFrom(i + 1, N, done)

\* c => c.index <= i
CountsBelow(c, i) == c.index < i
CountsUpTo(c, i) == c.index <= i

\* uploadedChunks.filter(c => c.index <= i).reduce((sum, c) => sum + c.size, 0)
RECURSIVE BytesUpTo(_, _)
BytesUpTo(s, i) ==
    IF s = <<>> THEN 0
    ELSE (IF CountsUpTo(Head(s), i) THEN Head(s).size ELSE 0) + BytesUpTo(Tail(s), i)

\* A notification as the caller receives it.  early records whether the
\* callback ran before the call had issued any transport request or
\* generated any key; onRecord records whether the list held a record of
\* the index when the callback ran.
Progress(i, bytes, log, keys, list) ==
    [kind |-> "progress", index |-> i, bytesUploaded |-> bytes,
     early |-> (Len(log) = 0 /\ keys = 0), onRecord |-> i \in Indices(list)]
ChunkUploaded(i, bytes, log, keys, list) ==
    [kind |-> "chunkUploaded", index |-> i, bytesUploaded |-> bytes,
     early |-> (Len(log) = 0 /\ keys = 0), onRecord |-> i \in Indices(list)]

\* onProgress?.(...); if (isUploadVideoOptions(titleOrOptions))
\* titleOrOptions.onChunkUploaded?.(...)
SuccessNotesSwapped(i, bytes, log, keys, list, ov) ==
    (IF ov = "options" THEN <<ChunkUploaded(i, bytes, log, keys, list)>> ELSE <<>>)
    \o <<Progress(i, bytes, log, keys, list)>>
SuccessNotes(i, bytes, log, keys, list, ov) ==
    <<Progress(i, bytes, log, keys, list)>>
    \o (IF ov = "options" THEN <<ChunkUploaded(i, bytes, log, keys, list)>> ELSE <<>>)

\* the else branch of the pending loop: replayed progress notifications
RECURSIVE Replay(_, _, _)
Replay(i, N, s) ==
    IF i >= N THEN <<>>
    ELSE IF i \in Indices(s)
         THEN <<Progress(i, BytesUpTo(s, i), putLog, keysGenerated, s)>>
              \o Replay(i + 1, N, s)
         ELSE Replay(i + 1, N, s)

PutChunk(i) == [kind |-> "chunk", index |-> i]
PutManifest == [kind |-> "manifest", index |-> 0]

\* --------------------------------------------------- TaiClient.uploadVideo
\* this.events.onUploadStart?.({ totalSize, totalChunks }); first records
\* whether the call had issued no request and notified nobody yet.
ClientStart(log, ns) ==
    [kind |-> "uploadStart", index |-> 0, first |-> (Len(log) = 0 /\ Len(ns) = 0),
     request |-> NoRequest]
\* this.events.onUploadComplete?.({ manifestBlobId: result.blobId, ... })
ClientComplete(res) ==
    [kind |-> "uploadComplete", index |-> 0, first |-> FALSE, request |-> res.request]
ClientEvent(k, i) == [kind |-> k, index |-> i, first |-> FALSE, request |-> NoRequest]

\* wrappedOptions.onProgress: (info) => originalOnProgress?.(info)
WrappedProgress(info) == <<ClientEvent("callerProgress", info.index)>>
\* wrappedOptions.onChunkUploaded: originalOnChunkUploaded?.(info), then
\* this.events.onChunkUploaded?.({ index: info.index, ... })
WrappedChunkUploadedClientFirst(info) ==
    <<ClientEvent("chunkUploaded", info.index),
      ClientEvent("callerChunkUploaded", info.index)>>
WrappedChunkUploaded(info) ==
    <<ClientEvent("callerChunkUploaded", info.index),
      ClientEvent("chunkUploaded", info.index)>>

\* What the wrapped callbacks invoke for the notifications ns of uploadVideo.
RECURSIVE Relay(_)
Relay(ns) ==
    IF ns = <<>> THEN <<>>
    ELSE (IF Head(ns).kind = "progress" THEN WrappedProgress(Head(ns))
          ELSE WrappedChunkUploaded(Head(ns)))
         \o Relay(Tail(ns))

\* ------------------------------------------------------------------ pool
\* if (executing.size >= concurrency) await Promise.race(executing)
PoolFullOffByOne(size, K) == size > K
PoolFull(size, K) == size >= K

\* The for loop over pending, run from position n until it suspends: at
\* Promise.race when the set is full, or at Promise.all after the last index.
\* uploadChunkMaybeEncrypt(i) runs synchronously up to its first await: the
\* transport request of a plaintext chunk is issued at once, an encrypted
\* chunk first awaits the slice and the cipher.
\* for (const i of pending): the n-th index taken by the loop
NextIndexFromEnd(pend, n) == pend[Len(pend) - n + 1]
NextIndex(pend, n) == pend[n]

RECURSIVE Pool(_, _, _, _, _, _, _)
Pool(pend, n, E, t, log, K, enc) ==
    IF n > Len(pend)
    THEN [pc |-> "all", executing |-> E, next |-> n, task |-> t, putLog |-> log]
    ELSE LET i == NextIndex(pend, n)
             E2 == E \cup {i}
             t2 == [t EXCEPT ![i] = IF enc THEN "encrypting" ELSE "uploading"]
             log2 == IF enc THEN log ELSE Append(log, PutChunk(i))
         IN IF PoolFull(Cardinality(E2), K)
            THEN [pc |-> "race", executing |-> E2, next |-> n + 1, task |-> t2, putLog |-> log2]
            ELSE Pool(pend, n + 1, E2, t2, log2, K, enc)

\* Settlement of the combinator at the moment uploadVideo awaits it:
\* Promise.all of an empty set is already fulfilled, every other set holds
\* only promises that have not settled.
AwaitEntered(pcv, E) == IF pcv = "all" /\ E = {} THEN "ok" ELSE "pending"

\* Suspend uploadVideo at the await the loop reached.
EnterPool(pend, n, K) ==
    LET r == Pool(pend, n, executing, task, putLog, K, shouldEncrypt)
    IN /\ pc' = r.pc
       /\ executing' = r.executing
       /\ nextPending' = r.next
       /\ task' = r.task
       /\ putLog' = r.putLog
       \* a task that reached uploadToWalrus is in its first fetch attempt
       /\ attempts' = [i \in ChunkIds |->
                          IF task[i] = "idle" /\ r.task[i] = "uploading" THEN 1 ELSE attempts[i]]
       /\ awaited' = r.executing
       /\ awaitResult' = AwaitEntered(r.pc, r.executing)

\* uploadVideo, from the call to its first await.
Call ==
    /\ pc = "init"
    /\ LET c == NormalizeConcurrency(overload, optConcurrency)
           N == TotalChunks(totalSize)
           sorted == SortByIndex(existingChunks)
           pend == PendingFrom(0, N, Indices(sorted))
           key == IF overload = "options" THEN KeyArgument(optKey) ELSE NoKey
       IN /\ concurrency' = c
          /\ IF ~ValidConcurrency(c)
             THEN /\ pc' = "rejected"
                  /\ error' = "InvalidConcurrency"
                  /\ UNCHANGED <<uploadedChunks, runningBytesUploaded, pending, notes,
                                 encryptionKey, executing, nextPending, task, putLog,
                                 attempts, awaited, awaitResult>>
             ELSE /\ uploadedChunks' = sorted
                  /\ pending' = pend
                  /\ notes' = Replay(0, N, sorted)
                  /\ runningBytesUploaded' = SumSizes(sorted)
                  /\ encryptionKey' = key
                  /\ error' = error
                  /\ IF shouldEncrypt /\ key = NoKey
                     THEN /\ pc' = "keygen"
                          /\ UNCHANGED <<executing, nextPending, task, putLog,
                                         attempts, awaited, awaitResult>>
                     ELSE EnterPool(pend, 1, c.v)
    \* TaiClient.uploadVideo: onUploadStart, then uploadVideo(data,
    \* wrappedOptions, config) runs to its first await
    /\ clientLog' = IF viaClient THEN <<ClientStart(putLog, notes)>> \o Relay(notes')
                    ELSE clientLog
    /\ cpc' = IF viaClient THEN "awaiting" ELSE cpc
    /\ UNCHANGED <<totalSize, overload, optConcurrency, existingChunks, optEncrypt, optKey,
                   keysGenerated, manifest, keyOf, failKind, store,
                   manifestBlob, result, viaClient>>
    /\ UNCHANGED <<downloadVars, transportVars>>
\* crypto.subtle.generateKey / exportKey resolved: the loop starts.
KeyGenerated ==
    /\ pc = "keygen"
    /\ keysGenerated' = keysGenerated + 1
    /\ encryptionKey' = GeneratedKey(keysGenerated + 1)
    /\ EnterPool(pending, 1, concurrency.v)
    /\ UNCHANGED <<totalSize, overload, optConcurrency, existingChunks, optEncrypt, optKey,
                   concurrency, uploadedChunks, runningBytesUploaded, pending, manifest,
                   keyOf, failKind, store, manifestBlob, notes, error, result>>
    /\ UNCHANGED <<downloadVars, transportVars, clientVars>>

\* encrypt(): key && key.length === 32 ? importKey(key) : generateKey()
UsableKey(k) == k.src \in {"supplied", "generated"}

\* Chunk task i, encrypted path: slice and cipher resolved, the ciphertext is
\* handed to uploadToWalrus.
TaskEncrypted(i) ==
    /\ task[i] = "encrypting"
    /\ IF UsableKey(encryptionKey)
       THEN /\ keyOf' = [keyOf EXCEPT ![i] = encryptionKey]
            /\ UNCHANGED keysGenerated
       ELSE /\ keyOf' = [keyOf EXCEPT ![i] = GeneratedKey(keysGenerated + 1)]
            /\ keysGenerated' = keysGenerated + 1
    /\ task' = [task EXCEPT ![i] = "uploading"]
    /\ putLog' = Append(putLog, PutChunk(i))
    /\ attempts' = [attempts EXCEPT ![i] = 1]
    /\ UNCHANGED <<totalSize, overload, optConcurrency, existingChunks, optEncrypt, optKey,
                   pc, concurrency, encryptionKey, uploadedChunks, runningBytesUploaded,
                   pending, nextPending, executing, awaited, awaitResult, manifest,
                   failKind, store, manifestBlob, notes, error, result>>
    /\ UNCHANGED <<downloadVars, transportVars, clientVars>>

\* Settlement of the awaited combinator when pool promise i settles.
\* Promise.race settles as its first settled member does; Promise.all is
\* fulfilled when every member is, and rejected by the first rejection.
AnyFulfilled(A, t) == \E j \in A : t[j] = "ok"
AllFulfilled(A, t) == \A j \in A : t[j] = "ok"

AfterSettle(i, ok, t) ==
    IF pc \in {"race", "all"} /\ awaitResult = "pending" /\ i \in awaited
    THEN IF ~ok THEN "err"
         ELSE IF pc = "race" THEN "ok"
         ELSE IF AllFulfilled(awaited, t) THEN "ok" ELSE "pending"
    ELSE awaitResult

\* fetchWithRetry: if (attempt < retries) { onRetry; sleep } and the loop
\* goes round again; attempt counts from 0.
RetryAgainOneLess(attempt, retries) == attempt < retries - 1
RetryAgain(attempt, retries) == attempt < retries

\* Chunk task i: fetchWithTimeout threw (network error or timeout), the
\* back-off elapsed and fetchWithRetry issues the next attempt.  No onRetry
\* callback: uploadVideo passes none to uploadToWalrus.
AttemptThrows(i) ==
    /\ task[i] = "uploading"
    /\ RetryAgain(attempts[i] - 1, UploadRetries)
    /\ attempts' = [attempts EXCEPT ![i] = attempts[i] + 1]
    /\ UNCHANGED <<totalSize, overload, optConcurrency, existingChunks, optEncrypt, optKey,
                   pc, concurrency, encryptionKey, keysGenerated, uploadedChunks,
                   runningBytesUploaded, pending, nextPending, executing, awaited,
                   awaitResult, manifest, task, keyOf, failKind, store,
                   manifestBlob, putLog, notes, error, result>>
    /\ UNCHANGED <<downloadVars, transportVars, clientVars>>

\* Bytes sent for chunk i.
ChunkBody(i) ==
    IF shouldEncrypt
    THEN Encrypt(SourceSlice(ChunkStart(i), ChunkEnd(i, totalSize)), keyOf[i])
    ELSE SourceSlice(ChunkStart(i), ChunkEnd(i, totalSize))

\* const chunkSize = end - start; runningBytesUploaded += chunkSize
RunningAfterFull(running, i, size) == running + CHUNK_SIZE
RunningAfter(running, i, size) == running + (ChunkEnd(i, size) - ChunkStart(i))

\* Chunk task i: uploadToWalrus resolved; record, counters, notifications,
\* then the pool's fulfilment handler removes p from the set.
TaskSucceed(i) ==
    /\ task[i] = "uploading"
    /\ LET bytes == RunningAfter(runningBytesUploaded, i, totalSize)
           t == [task EXCEPT ![i] = "ok"]
       IN /\ store' = [store EXCEPT ![i] = ChunkBody(i)]
          /\ runningBytesUploaded' = bytes
          /\ uploadedChunks' = Append(uploadedChunks, VideoChunk(i, totalSize))
          /\ notes' = notes \o SuccessNotes(i, bytes, putLog, keysGenerated,
                                             uploadedChunks', overload)
          /\ task' = t
          \* the attempt counter is a local of the fetchWithRetry call that returned
          /\ attempts' = [attempts EXCEPT ![i] = 0]
          /\ executing' = executing \ {i}
          /\ awaitResult' = AfterSettle(i, TRUE, t)
          /\ clientLog' = IF viaClient
                          THEN clientLog \o Relay(SuccessNotes(i, bytes, putLog, keysGenerated,
                                                                uploadedChunks', overload))
                          ELSE clientLog
    /\ UNCHANGED <<totalSize, overload, optConcurrency, existingChunks, optEncrypt, optKey,
                   pc, concurrency, encryptionKey, keysGenerated, pending, nextPending,
                   awaited, manifest, keyOf, failKind, manifestBlob, putLog,
                   error, result, viaClient, cpc>>
    /\ UNCHANGED <<downloadVars, transportVars>>

\* Ways uploadToWalrus rejects: the last fetch attempt threw (a network
\* error, or the timeout raised by fetchWithTimeout) and fetchWithRetry
\* rethrew it, or a response arrived that was not ok or carried no blob id.
Thrown == {"network", "timeout"}
Answered == {"status", "noBlobId"}

\* new UploadError(message, uploadedChunks): this.uploadedChunks is the array
\* passed in, not a copy of it; whoever holds the error reads the live array.
ErrorChunks(i) == uploadedChunks

\* The running total when uploadToWalrus rejected: the statement
\* runningBytesUploaded += chunkSize follows the await and is skipped.
RunningAfterFailureCounted(running, i, size) == RunningAfter(running, i, size)
RunningAfterFailure(running, i, size) == running

\* Chunk task i: uploadToWalrus rejected; the task throws UploadError and the
\* pool's rejection handler removes p from the set and rethrows.
TaskFail(i) ==
    /\ task[i] = "uploading"
    /\ \E kind \in Thrown \cup Answered :
          /\ kind \in Thrown => ~RetryAgain(attempts[i] - 1, UploadRetries)
          /\ failKind' = [failKind EXCEPT ![i] = kind]
    \* the attempt counter is a local of the fetchWithRetry call that threw
    /\ attempts' = [attempts EXCEPT ![i] = 0]
    /\ task' = [task EXCEPT ![i] = "failed"]
    /\ executing' = executing \ {i}
    /\ awaitResult' = AfterSettle(i, FALSE, task')
    /\ runningBytesUploaded' = RunningAfterFailure(runningBytesUploaded, i, totalSize)
    /\ UNCHANGED <<totalSize, overload, optConcurrency, existingChunks, optEncrypt, optKey,
                   pc, concurrency, encryptionKey, keysGenerated, uploadedChunks,
                   pending, nextPending, awaited, manifest, keyOf,
                   store, manifestBlob, putLog, notes, error, result>>
    /\ UNCHANGED <<downloadVars, transportVars, clientVars>>

\* await of a rejected promise throws; nothing in uploadVideo catches it.
RejectsNever(r) == FALSE
Rejects(r) == r = "err"

\* The chunk tasks when uploadVideo rejects: no abort signal is handed to
\* uploadToWalrus and nothing else reaches the tasks, they stay as they are.
AfterAbortCancelled(t) ==
    [i \in DOMAIN t |-> IF t[i] \in {"encrypting", "uploading"} THEN "failed" ELSE t[i]]
AfterAbort(t) == t

\* uploadVideo resumes from await Promise.race(executing).
ResumeRace ==
    /\ pc = "race"
    /\ awaitResult # "pending"
    /\ IF Rejects(awaitResult)
       THEN /\ pc' = "rejected"
            /\ error' = "UploadError"
            /\ task' = AfterAbort(task)
            /\ UNCHANGED <<executing, nextPending, putLog, attempts, awaited,
                           awaitResult>>
       ELSE /\ EnterPool(pending, nextPending, concurrency.v)
            /\ UNCHANGED error
    /\ UNCHANGED <<totalSize, overload, optConcurrency, existingChunks, optEncrypt, optKey,
                   concurrency, encryptionKey, keysGenerated, uploadedChunks,
                   runningBytesUploaded, pending, manifest, keyOf, failKind,
                   store, manifestBlob, notes, result>>
    /\ UNCHANGED <<downloadVars, transportVars, clientVars>>

\* uploadVideo resumes from await Promise.all(executing): sort, assemble the
\* manifest, serialise it and hand it to uploadToWalrus.
ResumeAll ==
    /\ pc = "all"
    /\ awaitResult # "pending"
    /\ IF Rejects(awaitResult)
       THEN /\ pc' = "rejected"
            /\ error' = "UploadError"
            /\ task' = AfterAbort(task)
            /\ UNCHANGED <<uploadedChunks, manifest, putLog>>
       ELSE /\ uploadedChunks' = SortByIndex(uploadedChunks)
            /\ UNCHANGED task
            /\ manifest' = [present |-> TRUE, totalSize |-> totalSize,
                            chunks |-> SortByIndex(uploadedChunks)]
            /\ putLog' = Append(putLog, PutManifest)
            /\ pc' = "manifest"
            /\ UNCHANGED error
    /\ UNCHANGED <<totalSize, overload, optConcurrency, existingChunks, optEncrypt, optKey,
                   concurrency, encryptionKey, keysGenerated, runningBytesUploaded, pending,
                   nextPending, executing, awaited, awaitResult, keyOf, attempts,
                   failKind, store, manifestBlob, notes, result>>
    /\ UNCHANGED <<downloadVars, transportVars, clientVars>>

\* return uploadToWalrus(manifestJson, config): resolved.
ManifestOk ==
    /\ pc = "manifest"
    /\ pc' = "done"
    /\ manifestBlob' = manifest
    /\ result' = [present |-> TRUE, request |-> PutManifest]
    /\ UNCHANGED <<totalSize, overload, optConcurrency, existingChunks, optEncrypt, optKey,
                   concurrency, encryptionKey, keysGenerated, uploadedChunks,
                   runningBytesUploaded, pending, nextPending, executing, awaited,
                   awaitResult, manifest, task, keyOf, attempts, failKind,
                   store, putLog, notes, error>>
    /\ UNCHANGED <<downloadVars, transportVars, clientVars>>

\* return uploadToWalrus(manifestJson, config): rejected.
ManifestFail ==
    /\ pc = "manifest"
    /\ pc' = "rejected"
    /\ error' = "ManifestError"
    /\ UNCHANGED <<totalSize, overload, optConcurrency, existingChunks, optEncrypt, optKey,
                   concurrency, encryptionKey, keysGenerated, uploadedChunks,
                   runningBytesUploaded, pending, nextPending, executing, awaited,
                   awaitResult, manifest, task, keyOf, attempts, failKind,
                   store, manifestBlob, putLog, notes, result>>
    /\ UNCHANGED <<downloadVars, transportVars, clientVars>>

\* --------------------------------------------------------- downloadRange
RangeInputs ==
    {[fin |-> TRUE, v |-> n] : n \in -1..(MaxTotalSize + 1)} \cup {[fin |-> FALSE, v |-> 0]}

\* The three validation throws, in order.
RangeErrorNoOrder(sb, eb) ==
    IF ~sb.fin \/ ~eb.fin THEN "NotFinite"
    ELSE IF sb.v < 0 \/ eb.v < 0 THEN "Negative"
    ELSE "none"
RangeError(sb, eb) ==
    IF ~sb.fin \/ ~eb.fin THEN "NotFinite"
    ELSE IF sb.v < 0 \/ eb.v < 0 THEN "Negative"
    ELSE IF eb.v < sb.v THEN "EndBeforeStart"
    ELSE "none"

\* const clampedEnd = Math.min(endByte, manifest.totalSize)
ClampedEnd(eb, m) == Min(eb, m.totalSize)

\* if (startByte >= clampedEnd) return empty
EmptyRangeStrict(sb, ce) == sb > ce
EmptyRange(sb, ce) == sb >= ce

\* c.offsetEnd > startByte && c.offsetStart < clampedEnd
OverlapsClosed(c, sb, ce) == c.offsetEnd >= sb /\ c.offsetStart <= ce
Overlaps(c, sb, ce) == c.offsetEnd > sb /\ c.offsetStart < ce

RECURSIVE Filter(_, _, _)
Filter(chunks, sb, ce) ==
    IF chunks = <<>> THEN <<>>
    ELSE (IF Overlaps(Head(chunks), sb, ce) THEN <<Head(chunks)>> ELSE <<>>)
         \o Filter(Tail(chunks), sb, ce)

\* combined.set(buf, offset) for each buffer
RECURSIVE Concat(_)
Concat(bs) == IF bs = <<>> THEN <<>> ELSE Head(bs) \o Concat(Tail(bs))

\* TypedArray.prototype.slice(start, end): negative indices count from the
\* end, both are clamped to the length.
RelIndex(rel, len) == IF rel < 0 THEN Max(len + rel, 0) ELSE Min(rel, len)
SliceInclusive(arr, start, end) ==
    LET k == RelIndex(start, Len(arr))
        final == RelIndex(end + 1, Len(arr))
    IN IF final > k THEN SubSeq(arr, k + 1, final) ELSE <<>>
Slice(arr, start, end) ==
    LET k == RelIndex(start, Len(arr))
        final == RelIndex(end, Len(arr))
    IN IF final > k THEN SubSeq(arr, k + 1, final) ELSE <<>>

GetManifest == [kind |-> "manifest", blobId |-> 0]
GetChunk(b) == [kind |-> "chunk", blobId |-> b]

EmptyResult == [present |-> TRUE, data |-> <<>>, chunksUsed |-> 0]

\* for (const chunk of overlapping) { await downloadFromWalrus(chunk.blobId) }:
\* the requests entering the loop issues before its first await.
FirstRequestsAll(ov) == [n \in 1..Len(ov) |-> GetChunk(ov[n].blobId)]
FirstRequests(ov) == <<GetChunk(ov[1].blobId)>>

\* downloadRange, from the call to its first await.
DlCall(sb, eb) ==
    /\ pc = "done"
    /\ dpc = "idle"
    /\ startByte' = sb
    /\ endByte' = eb
    /\ IF RangeError(sb, eb) # "none"
       THEN /\ dpc' = "failed"
            /\ dlLog' = <<>>
       ELSE /\ dpc' = "manifest"
            /\ dlLog' = <<GetManifest>>
    /\ UNCHANGED <<dlManifest, overlapping, buffers, dlResult>>
    /\ UNCHANGED <<uploadVars, transportVars, clientVars>>

\* downloadManifest resolved: clamp, filter, start the first chunk download.
DlManifestOk ==
    /\ dpc = "manifest"
    /\ dlManifest' = manifestBlob
    /\ LET ce == ClampedEnd(endByte.v, manifestBlob)
           ov == Filter(manifestBlob.chunks, startByte.v, ce)
       IN IF EmptyRange(startByte.v, ce) \/ ov = <<>>
          THEN /\ dpc' = "returned"
               /\ dlResult' = EmptyResult
               /\ overlapping' = IF EmptyRange(startByte.v, ce) THEN <<>> ELSE ov
               /\ UNCHANGED dlLog
          ELSE /\ dpc' = "chunk"
               /\ overlapping' = ov
               /\ dlLog' = dlLog \o FirstRequests(ov)
               /\ UNCHANGED dlResult
    /\ UNCHANGED <<startByte, endByte, buffers>>
    /\ UNCHANGED <<uploadVars, transportVars, clientVars>>

\* downloadFromWalrus of the current chunk resolved: next chunk, or
\* concatenate and slice.
DlChunkOk ==
    /\ dpc = "chunk"
    /\ LET k == Len(buffers) + 1
           bs == Append(buffers, store[overlapping[k].blobId])
       IN /\ buffers' = bs
          /\ IF k < Len(overlapping)
             THEN /\ dlLog' = Append(dlLog, GetChunk(overlapping[k + 1].blobId))
                  /\ UNCHANGED <<dpc, dlResult>>
             ELSE LET combined == Concat(bs)
                      ce == ClampedEnd(endByte.v, dlManifest)
                      sliceStart == startByte.v - overlapping[1].offsetStart
                      sliceEnd == sliceStart + (ce - startByte.v)
                  IN /\ dpc' = "returned"
                     /\ dlResult' = [present |-> TRUE,
                                     data |-> Slice(combined, sliceStart, sliceEnd),
                                     chunksUsed |-> Len(overlapping)]
                     /\ UNCHANGED dlLog
    /\ UNCHANGED <<startByte, endByte, dlManifest, overlapping>>
    /\ UNCHANGED <<uploadVars, transportVars, clientVars>>

\* downloadManifest or downloadFromWalrus rejected: downloadRange rejects.
DlFail ==
    /\ dpc \in {"manifest", "chunk"}
    /\ dpc' = "failed"
    /\ UNCHANGED <<startByte, endByte, dlManifest, overlapping, buffers, dlLog, dlResult>>
    /\ UNCHANGED <<uploadVars, transportVars, clientVars>>

\* ------------------------------------------------------- fetchWithTimeout
\* How fetch() settles: a response that is ok or not, a network error, or
\* the abort raised when the timer fires first.
FetchOutcomes == {"ok", "notOk", "network", "abort"}
FetchThrows == {"network", "abort"}

\* catch: an AbortError becomes the timed-out Error, anything else is
\* rethrown as it is.
Rethrown(o) == IF o = "abort" THEN "timeout" ELSE o

\* --------------------------------------------------------- fetchWithRetry
FetchEvent(attempt) ==
    [kind |-> "fetch", attempt |-> attempt, maxRetries |-> 0, error |-> NoError]
\* onRetry?.({ operation: url, attempt: attempt + 1, maxRetries: retries, error: err })
OnRetryInfoZeroBased(attempt, retries, err) ==
    [kind |-> "onRetry", attempt |-> attempt, maxRetries |-> retries, error |-> err]
OnRetryInfo(attempt, retries, err) ==
    [kind |-> "onRetry", attempt |-> attempt + 1, maxRetries |-> retries, error |-> err]
\* await new Promise(resolve => setTimeout(resolve, baseDelay * 2 ** attempt))
WaitEvent(attempt) ==
    [kind |-> "wait", attempt |-> attempt, maxRetries |-> 0, error |-> NoError]

\* fetchWithRetry(url, init, R, baseDelay, onRetry), to its first await:
\* the loop is entered with attempt = 0 and the first fetch is issued.
FrCall(R) ==
    /\ frPc = "idle"
    /\ frRetries' = R
    /\ frAttempt' = 0
    /\ frLog' = <<FetchEvent(0)>>
    /\ frPc' = "attempt"
    /\ UNCHANGED <<frLastError, frResult, bePc, beOutcome, beResult>>
    /\ UNCHANGED <<uploadVars, downloadVars, clientVars>>

\* fetchWithTimeout resolved: return response, whether ok or not.
FrAttemptReturns(o) ==
    /\ frPc = "attempt"
    /\ o \notin FetchThrows
    /\ frPc' = "returned"
    /\ frResult' = [kind |-> "response", response |-> o, error |-> NoError,
                    at |-> frAttempt]
    /\ UNCHANGED <<frRetries, frAttempt, frLastError, frLog, bePc, beOutcome, beResult>>
    /\ UNCHANGED <<uploadVars, downloadVars, clientVars>>

\* fetchWithTimeout threw: remember the error; with attempts left call
\* onRetry and start the back-off, otherwise leave the loop and throw
\* lastError.
FrAttemptThrows(o) ==
    /\ frPc = "attempt"
    /\ o \in FetchThrows
    /\ LET err == [kind |-> Rethrown(o), at |-> frAttempt]
       IN /\ frLastError' = err
          /\ IF RetryAgain(frAttempt, frRetries)
             THEN /\ frLog' = frLog \o <<OnRetryInfo(frAttempt, frRetries, err),
                                        WaitEvent(frAttempt)>>
                  /\ frPc' = "waiting"
                  /\ UNCHANGED frResult
             ELSE /\ frPc' = "failed"
                  /\ frResult' = [kind |-> "error", response |-> "none",
                                  error |-> frLastError', at |-> frAttempt]
                  /\ UNCHANGED frLog
    /\ UNCHANGED <<frRetries, frAttempt, bePc, beOutcome, beResult>>
    /\ UNCHANGED <<uploadVars, downloadVars, clientVars>>

\* The back-off timer fired: attempt++ and the next fetch is issued.
FrDelayElapsed ==
    /\ frPc = "waiting"
    /\ frAttempt' = frAttempt + 1
    /\ frLog' = Append(frLog, FetchEvent(frAttempt + 1))
    /\ frPc' = "attempt"
    /\ UNCHANGED <<frRetries, frLastError, frResult, bePc, beOutcome, beResult>>
    /\ UNCHANGED <<uploadVars, downloadVars, clientVars>>

\* ------------------------------------------------------------- blobExists
\* try { return (await fetchWithTimeout(url, { method: 'HEAD' })).ok }
\* catch { return false }
ExistsUncaught(o) ==
    IF o \in FetchThrows THEN [pc |-> "failed", value |-> FALSE]
    ELSE [pc |-> "returned", value |-> o = "ok"]
Exists(o) ==
    IF o \in FetchThrows THEN [pc |-> "returned", value |-> FALSE]
    ELSE [pc |-> "returned", value |-> o = "ok"]

\* blobExists, to its await: the HEAD request is issued.
BeCall ==
    /\ bePc = "idle"
    /\ bePc' = "head"
    /\ UNCHANGED <<frPc, frRetries, frAttempt, frLastError, frLog, frResult,
                   beOutcome, beResult>>
    /\ UNCHANGED <<uploadVars, downloadVars, clientVars>>

\* The HEAD request settled.
BeSettled(o) ==
    /\ bePc = "head"
    /\ beOutcome' = Rethrown(o)
    /\ bePc' = Exists(o).pc
    /\ beResult' = Exists(o).value
    /\ UNCHANGED <<frPc, frRetries, frAttempt, frLastError, frLog, frResult>>
    /\ UNCHANGED <<uploadVars, downloadVars, clientVars>>

Next ==
    \/ Call
    \/ KeyGenerated
    \/ \E i \in ChunkIds : TaskEncrypted(i)
    \/ \E i \in ChunkIds : AttemptThrows(i)
    \/ \E i \in ChunkIds : TaskSucceed(i)
    \/ \E i \in ChunkIds : TaskFail(i)
    \/ ResumeRace
    \/ ResumeAll
    \/ ManifestOk
    \/ ManifestFail
    \/ \E sb, eb \in RangeInputs : DlCall(sb, eb)
    \/ DlManifestOk
    \/ DlChunkOk
    \/ DlFail

Spec == Init /\ [][Next]_vars

\* The transport helpers called on their own, beside an upload session
\* that has not been started.
TransportInit ==
    Init /\ totalSize = 0 /\ overload = "legacy" /\ existingChunks = <<>>
TransportNext ==
    \/ \E R \in 0..MaxRetries : FrCall(R)
    \/ \E o \in FetchOutcomes \ FetchThrows : FrAttemptReturns(o)
    \/ \E o \in FetchThrows : FrAttemptThrows(o)
    \/ FrDelayElapsed
    \/ BeCall
    \/ \E o \in FetchOutcomes : BeSettled(o)
TransportSpec == TransportInit /\ [][TransportNext]_vars

\* const result = await uploadVideo(...) settled: on a result
\* onUploadComplete is called and the result returned, on a rejection the
\* await throws and TaiClient.uploadVideo rejects.
ClientResume ==
    /\ viaClient
    /\ cpc = "awaiting"
    /\ pc \in {"done", "rejected"}
    /\ IF pc = "done"
       THEN /\ clientLog' = Append(clientLog, ClientComplete(result))
            /\ cpc' = "returned"
       ELSE /\ cpc' = "rejected"
            /\ UNCHANGED clientLog
    /\ UNCHANGED viaClient
    /\ UNCHANGED <<uploadVars, downloadVars, transportVars>>

\* The steps of the uploadVideo call alone.
UploadNext ==
    \/ Call
    \/ KeyGenerated
    \/ \E i \in ChunkIds : TaskEncrypted(i)
    \/ \E i \in ChunkIds : AttemptThrows(i)
    \/ \E i \in ChunkIds : TaskSucceed(i)
    \/ \E i \in ChunkIds : TaskFail(i)
    \/ ResumeRace
    \/ ResumeAll
    \/ ManifestOk
    \/ ManifestFail

\* The call under the assumption that every promise it waits for settles:
\* every key generation, cipher and transport request resolves or rejects,
\* and the job queue runs every continuation that is ready.
LiveSpec == Init /\ [][UploadNext]_vars /\ WF_vars(UploadNext)

\* TaiClient.uploadVideo: the same call made with the wrapped options, and
\* the continuation of the client method once the call has settled.
ClientInit == InitSession(TRUE) /\ overload = "options"
ClientNext ==
    \/ Call
    \/ KeyGenerated
    \/ \E i \in ChunkIds : TaskEncrypted(i)
    \/ \E i \in ChunkIds : AttemptThrows(i)
    \/ \E i \in ChunkIds : TaskSucceed(i)
    \/ \E i \in ChunkIds : TaskFail(i)
    \/ ResumeRace
    \/ ResumeAll
    \/ ManifestOk
    \/ ManifestFail
    \/ ClientResume
ClientSpec == ClientInit /\ [][ClientNext]_vars

\* ================================================================ claims
N == TotalChunks(totalSize)
Unsettled == {i \in ChunkIds : task[i] \in {"encrypting", "uploading"}}
Started == {i \in ChunkIds : task[i] # "idle"}
PendingSet == {pending[n] : n \in 1..Len(pending)}
ExistingSet == Indices(existingChunks)
ManifestPuts == {n \in 1..Len(putLog) : putLog[n].kind = "manifest"}
ChunkPuts(i) == {n \in 1..Len(putLog) : putLog[n] = PutChunk(i)}

\* C1: the number of chunk tasks started and not yet settled never exceeds
\* the concurrency value K, in every interleaving of completions.
C1_ConcurrencyBound ==
    (pc # "init" /\ ValidConcurrency(concurrency)) =>
        Cardinality(Unsettled) <= concurrency.v

\* C1 witness: with K = 2 and three chunks, the third was admitted after an
\* earlier task settled and the pool is full again.
C1_Witness ==
    /\ concurrency = [kind |-> "int", v |-> 2]
    /\ Cardinality(Unsettled) = 2
    /\ \E i \in ChunkIds : task[i] \in {"ok", "failed"}
    /\ Len(pending) = 3

\* C2: the manifest is assembled and uploaded only after every pending chunk
\* task completed successfully; once a chunk task failed no manifest upload
\* is issued and uploadVideo does not resolve.
C2_NoManifestAfterChunkFailure ==
    /\ manifest.present => \A i \in PendingSet : task[i] = "ok"
    /\ (\E i \in ChunkIds : task[i] = "failed") => (ManifestPuts = {} /\ pc # "done")

\* The record the spec prescribes for index i of an object of totalSize bytes.
SpecRecordOk(c, i) ==
    /\ c.index = i
    /\ c.offsetStart = i * CHUNK_SIZE
    /\ c.offsetEnd = Min((i + 1) * CHUNK_SIZE, totalSize)
    /\ c.size = c.offsetEnd - c.offsetStart

CeilChunks == CHOOSE n \in 0..(totalSize + 1) :
                 n * CHUNK_SIZE >= totalSize /\ (n - 1) * CHUNK_SIZE < totalSize

CompleteManifest(m) ==
    /\ Len(m.chunks) = CeilChunks
    /\ \A i \in 0..(CeilChunks - 1) : SpecRecordOk(m.chunks[i + 1], i)
    /\ SumSizes(m.chunks) = totalSize

\* C3: whenever uploadVideo returns successfully the uploaded manifest holds
\* exactly one record per index 0..N-1 with the prescribed offsets and
\* plaintext sizes, and the sizes sum to totalSize.
C3_ManifestComplete ==
    pc = "done" => CompleteManifest(manifestBlob)

\* C4: a concurrency value that is not a positive integer (0 included) makes
\* uploadVideo fail with the invalid-concurrency error before any transport
\* request.
C4_InvalidConcurrencyRejected ==
    (/\ pc # "init"
     /\ overload = "options"
     /\ optConcurrency.kind # "absent"
     /\ ~(optConcurrency.kind = "int" /\ optConcurrency.v >= 1))
    => (pc = "rejected" /\ error = "InvalidConcurrency" /\ putLog = <<>>)

BadRange(sb, eb) == ~sb.fin \/ ~eb.fin \/ sb.v < 0 \/ eb.v < 0 \/ eb.v < sb.v

\* C5: downloadRange with endByte < startByte, a negative bound or a
\* non-finite bound fails before any transport request: neither the manifest
\* nor a chunk is downloaded.
C5_InvalidRangeNoTransport ==
    (dpc # "idle" /\ BadRange(startByte, endByte)) =>
        (dpc = "failed" /\ dlLog = <<>> /\ ~dlResult.present)

\* C5 witness: a finite, non-negative range with endByte < startByte was
\* rejected.
C5_Witness ==
    /\ dpc = "failed"
    /\ startByte.fin /\ endByte.fin
    /\ endByte.v >= 0 /\ endByte.v < startByte.v

EmptyOrBeyond ==
    /\ dpc # "idle"
    /\ ~BadRange(startByte, endByte)
    /\ (startByte.v = endByte.v \/ startByte.v >= totalSize)

\* C6 as stated: for an empty range or a range at or beyond totalSize,
\* downloadRange returns empty data and chunksUsed = 0 and issues no network
\* call at all.
C6_EmptyRangeNoNetwork ==
    (EmptyOrBeyond /\ dpc = "returned") =>
        (dlResult.data = <<>> /\ dlResult.chunksUsed = 0 /\ dlLog = <<>>)

\* C6 amended: for an empty range or a range at or beyond totalSize the only
\* network call is the manifest download, no chunk is requested, and once
\* the manifest is there the result is empty data with chunksUsed = 0.
C6_EmptyRangeOnlyManifest ==
    EmptyOrBeyond =>
        /\ dlLog = <<GetManifest>>
        /\ dpc \in {"manifest", "returned", "failed"}
        /\ dpc = "returned" =>
              (dlResult.present /\ dlResult.data = <<>> /\ dlResult.chunksUsed = 0)

\* C6 witness: an empty range strictly inside the first chunk returned.
C6_Witness ==
    /\ dpc = "returned"
    /\ startByte.v = endByte.v
    /\ startByte.v > 0 /\ startByte.v < totalSize
    /\ dlManifest.chunks # <<>>

\* C7: for a manifest produced by a successful uploadVideo (any options,
\* encryption included) and 0 <= startByte <= endByte <= totalSize,
\* downloadRange returns exactly the source bytes [startByte, endByte).
C7_RangeRoundTrip ==
    (/\ dpc = "returned"
     /\ ~BadRange(startByte, endByte)
     /\ endByte.v <= totalSize)
    => dlResult.data = [j \in 1..(endByte.v - startByte.v) |-> PlainByte(startByte.v + j - 1)]

Fetched == {dlLog[n].blobId : n \in {k \in 1..Len(dlLog) : dlLog[k].kind = "chunk"}}
FetchCount == Cardinality({k \in 1..Len(dlLog) : dlLog[k].kind = "chunk"})
FormulaSet(m) ==
    {m.chunks[n].blobId : n \in {k \in 1..Len(m.chunks) :
        /\ m.chunks[k].offsetEnd > startByte.v
        /\ m.chunks[k].offsetStart < Min(endByte.v, m.totalSize)}}

\* C8 as stated: downloadRange fetches exactly the chunks with
\* offsetEnd > startByte and offsetStart < min(endByte, totalSize), and
\* chunksUsed is their number.
C8_FetchesFormulaSet ==
    dpc = "returned" =>
        /\ Fetched = FormulaSet(dlManifest)
        /\ dlResult.chunksUsed = Cardinality(FormulaSet(dlManifest))

ExampleChunks ==
    <<[index |-> 0, blobId |-> 0, offsetStart |-> 0, offsetEnd |-> 10000000, size |-> 10000000],
      [index |-> 1, blobId |-> 1, offsetStart |-> 10000000, offsetEnd |-> 20000000, size |-> 10000000],
      [index |-> 2, blobId |-> 2, offsetStart |-> 20000000, offsetEnd |-> 25000000, size |-> 5000000]>>
ExampleManifest == [present |-> TRUE, totalSize |-> 25000000, chunks |-> ExampleChunks]
Selected(m, sb, eb) ==
    IF EmptyRange(sb, ClampedEnd(eb, m)) THEN {}
    ELSE Indices(Filter(m.chunks, sb, ClampedEnd(eb, m)))

\* C8 amended: when startByte < min(endByte, totalSize) downloadRange fetches
\* exactly the chunks with offsetEnd > startByte and
\* offsetStart < min(endByte, totalSize), each once, and chunksUsed is their
\* number; for an empty clamped range it fetches no chunk and chunksUsed = 0.
\* In the 25,000,000-byte example [9,000,000, 11,000,000) selects {0,1} and
\* [30,000,000, 35,000,000) selects none.
C8_FetchesOverlapping ==
    /\ dpc \in {"chunk", "returned", "failed"} /\ dlManifest.present =>
          /\ Fetched \subseteq FormulaSet(dlManifest)
          /\ FetchCount = Cardinality(Fetched)
    /\ dpc = "returned" =>
          LET want == IF startByte.v < Min(endByte.v, dlManifest.totalSize)
                      THEN FormulaSet(dlManifest) ELSE {}
          IN /\ Fetched = want
             /\ dlResult.chunksUsed = Cardinality(want)
    /\ Selected(ExampleManifest, 9000000, 11000000) = {0, 1}
    /\ Selected(ExampleManifest, 30000000, 35000000) = {}

\* C8 witness: a range over two of the three chunks of a manifest returned.
C8_Witness ==
    /\ dpc = "returned"
    /\ Len(dlManifest.chunks) = 3
    /\ dlResult.chunksUsed = 2

\* C9: the chunk count is ceil(totalSize / chunkSize) and the intervals
\* [i*chunkSize, min((i+1)*chunkSize, totalSize)) for i in 0..totalChunks-1
\* are non-empty, pairwise disjoint and cover exactly [0, totalSize).
C9_PartitionComplete ==
    /\ TotalChunks(totalSize) = CeilChunks
    /\ \A i \in 0..(TotalChunks(totalSize) - 1) :
          /\ ChunkStart(i) = i * CHUNK_SIZE
          /\ ChunkEnd(i, totalSize) = Min((i + 1) * CHUNK_SIZE, totalSize)
          /\ 0 <= ChunkStart(i)
          /\ ChunkStart(i) < ChunkEnd(i, totalSize)
          /\ ChunkEnd(i, totalSize) <= totalSize
    /\ \A b \in 0..(totalSize - 1) :
          Cardinality({i \in 0..(TotalChunks(totalSize) - 1) :
                          ChunkStart(i) <= b /\ b < ChunkEnd(i, totalSize)}) = 1
    /\ \A i \in Started :
          /\ i \in 0..(CeilChunks - 1)
          /\ task[i] = "ok" => Len(store[i]) >= ChunkEnd(i, totalSize) - ChunkStart(i)

\* C9 witness: a short last chunk of an object of at least two chunks was
\* uploaded.
C9_Witness ==
    /\ totalSize % CHUNK_SIZE # 0
    /\ TotalChunks(totalSize) >= 2
    /\ task[TotalChunks(totalSize) - 1] = "ok"

\* C10: with existingChunks over the index set S, chunk uploads are started
\* only for indices of {0..N-1} \ S, each at most once, and on success the
\* manifest is the resumed records plus one fresh record per pending index,
\* the same chunk set as an upload from scratch.
C10_Resumption ==
    /\ Started \subseteq (0..(CeilChunks - 1)) \ ExistingSet
    /\ \A i \in ChunkIds : Cardinality(ChunkPuts(i)) <= 1
    /\ pc = "done" =>
          /\ Started = (0..(CeilChunks - 1)) \ ExistingSet
          /\ manifestBlob.chunks = [n \in 1..CeilChunks |-> VideoChunk(n - 1, totalSize)]

Succeeded == {i \in ChunkIds : task[i] = "ok"}
Failed == {i \in ChunkIds : task[i] = "failed"}
Raises(i) == task[i] # "failed" /\ task'[i] = "failed"
ExistingRecords == {existingChunks[n] : n \in 1..Len(existingChunks)}

\* The payload a retry needs: the caller's records, one record for every
\* index in done, and nothing else.
ResumableState(e, done) ==
    /\ Len(e) = Cardinality(Indices(e))
    /\ Indices(e) = ExistingSet \cup done
    /\ \A n \in 1..Len(e) :
          \/ e[n] \in ExistingRecords
          \/ e[n].index \in done /\ SpecRecordOk(e[n], e[n].index) /\ e[n].blobId = e[n].index

\* C11: when a chunk upload fails uploadVideo rejects with an UploadError
\* (it neither uploads a manifest nor resolves), and at the moment the error
\* is raised its uploadedChunks are exactly the caller-supplied records plus
\* one record per chunk that already succeeded in this call, with no record
\* for the failed chunk.
C11_UploadErrorCarriesProgress ==
    [][/\ \A i \in ChunkIds :
             Raises(i) => /\ ResumableState(ErrorChunks(i)', Succeeded)
                          /\ i \notin Indices(ErrorChunks(i)')
       /\ Failed # {} => pc' \notin {"manifest", "done"}]_vars

\* The payload half of C11 alone.
C11_PayloadAtRaise ==
    [][\A i \in ChunkIds :
          Raises(i) => /\ ResumableState(ErrorChunks(i)', Succeeded)
                       /\ i \notin Indices(ErrorChunks(i)')]_vars

\* C12: the uploadedChunks carried by a raised UploadError is a snapshot: its
\* contents do not change after the error was raised, even when sibling
\* tasks that were in flight complete afterwards.
C12_ErrorChunksFrozen ==
    [][\A i \in Failed : ErrorChunks(i)' = ErrorChunks(i)]_vars

\* An UploadError has an uploadedChunks field; the Error thrown by
\* uploadToWalrus and fetchWithRetry has none.
CarriesChunks(e) == e = "UploadError"

\* C13: when every chunk was uploaded and the manifest upload fails, the
\* failure surfaced to the caller gives the caller the uploaded chunk records
\* (the resumption path of a chunk failure), so that a retry re-uploads no
\* chunk.
C13_ManifestFailureResumable ==
    (pc = "rejected" /\ ManifestPuts # {} /\ Succeeded # {} /\ Failed = {})
        => CarriesChunks(error)

Keyed == {i \in ChunkIds : keyOf[i] # NoKey}

\* C14: with encryption requested every chunk of the call is encrypted under
\* one and the same key, whether the caller supplied encryptionKey or not;
\* when none is supplied exactly one key is generated, before the first
\* chunk task starts.
C14_SingleKey ==
    shouldEncrypt =>
        /\ \A i, j \in Keyed : keyOf[i] = keyOf[j]
        /\ \A i \in Succeeded :
              /\ i \in Keyed
              /\ store[i] = Encrypt(SourceSlice(ChunkStart(i), ChunkEnd(i, totalSize)), keyOf[i])
        /\ optKey = "absent" =>
              /\ keysGenerated <= 1
              /\ Started # {} => (keysGenerated = 1 /\ encryptionKey = GeneratedKey(1))
              /\ \A i \in Keyed : keyOf[i] = GeneratedKey(1)

\* C14 restricted to calls without a key or with a 32-byte key.
C14_SingleKeyUsable ==
    optKey # "badlen" => C14_SingleKey

\* C15: at every observation point (each progress notification, each
\* per-chunk notification, the moment a failure is raised), for
\* existingChunks with distinct indices and any interleaving, uploadedChunks
\* holds at most one record per index and runningBytesUploaded equals the
\* sum of the sizes of the records in uploadedChunks.
C15_SessionInvariant ==
    (pc # "init" /\ error # "InvalidConcurrency") =>
        /\ Len(uploadedChunks) = Cardinality(Indices(uploadedChunks))
        /\ runningBytesUploaded = SumSizes(uploadedChunks)
        /\ \A n \in 1..Len(notes) :
              ~notes[n].early => notes[n].bytesUploaded <= runningBytesUploaded

\* C15 witness: a resumed call with two tasks in parallel; one chunk was
\* uploaded and notified, another failed, with a short last chunk on record.
C15_Witness ==
    /\ existingChunks # <<>>
    /\ Succeeded # {}
    /\ Failed # {}
    /\ totalSize % CHUNK_SIZE # 0
    /\ \E n \in 1..Len(uploadedChunks) : uploadedChunks[n].size < CHUNK_SIZE
    /\ \E n \in 1..Len(notes) : notes[n].kind = "chunkUploaded"

\* The members of a set of indices in ascending order.
RECURSIVE Ascending(_)
Ascending(S) ==
    IF S = {} THEN <<>>
    ELSE LET m == CHOOSE x \in S : \A y \in S : x <= y
         IN <<m>> \o Ascending(S \ {m})

\* Sum of the sizes of the resumed records with index <= i.
RECURSIVE ResumedBytes(_)
ResumedBytes(i) ==
    IF i < 0 THEN 0
    ELSE (IF i \in ExistingSet
          THEN (CHOOSE c \in ExistingRecords : c.index = i).size ELSE 0)
         + ResumedBytes(i - 1)

\* C16: for every already-uploaded index i in 0..N-1, in ascending order, one
\* progress notification is emitted whose bytesUploaded is the sum of the
\* sizes of the resumed records with index <= i; all of them are emitted
\* before any transport request and before key generation, and no later
\* notification is about a resumed index.
C16_ProgressReplay ==
    (pc # "init" /\ error # "InvalidConcurrency") =>
        LET R == Ascending(ExistingSet \cap 0..(CeilChunks - 1))
        IN /\ Len(notes) >= Len(R)
           /\ \A n \in 1..Len(R) :
                 /\ notes[n].kind = "progress"
                 /\ notes[n].index = R[n]
                 /\ notes[n].bytesUploaded = ResumedBytes(R[n])
                 /\ notes[n].early
           /\ \A n \in (Len(R) + 1)..Len(notes) :
                 /\ ~notes[n].early
                 /\ notes[n].index \notin ExistingSet

\* C16 witness: two resumed records handed over in descending order, a key
\* was generated and a fresh chunk was uploaded after the replay.
C16_Witness ==
    /\ Len(existingChunks) = 2
    /\ existingChunks[1].index > existingChunks[2].index
    /\ keysGenerated = 1
    /\ Succeeded # {}
    /\ Len(notes) > 2

StrictlyAscending(s) == \A n \in 1..(Len(s) - 1) : s[n].index < s[n + 1].index

\* C17: for every completion order of the concurrent chunk tasks and every
\* order of existingChunks, the chunks array of the manifest that is
\* uploaded is sorted strictly ascending by index.
C17_ManifestSorted ==
    /\ StrictlyAscending(manifest.chunks)
    /\ StrictlyAscending(manifestBlob.chunks)
    /\ ManifestPuts # {} => manifest.present

\* C17 witness: the caller resumed with the record of the last index and the
\* two tasks completed in descending order, so the list read 2, 1, 0 before
\* the sort; the manifest was stored.
C17_Witness ==
    /\ pc = "done"
    /\ Len(manifestBlob.chunks) = 3
    /\ Len(existingChunks) = 1
    /\ existingChunks[1].index = 2
    /\ \E a, b \in 1..Len(notes) :
          /\ a < b
          /\ ~notes[a].early /\ ~notes[b].early
          /\ notes[a].index > notes[b].index

\* C18: a successful uploadVideo resolves with the store result of the
\* manifest blob, never with a chunk's; the manifest upload is issued exactly
\* once, after every chunk upload of the call has settled, and it is the
\* last transport request of the call.
C18_ManifestLast ==
    /\ Cardinality(ManifestPuts) <= 1
    /\ ManifestPuts # {} =>
          /\ putLog[Len(putLog)].kind = "manifest"
          /\ Unsettled = {}
          /\ PendingSet \subseteq Started
    /\ result.present =>
          /\ pc = "done"
          /\ result.request.kind = "manifest"
          /\ manifestBlob.present
    /\ pc = "done" => (result.present /\ Cardinality(ManifestPuts) = 1)

\* C18 witness: three chunks went through a pool of two, the manifest
\* request was the fourth, and the call resolved.
C18_Witness ==
    /\ pc = "done"
    /\ concurrency = [kind |-> "int", v |-> 2]
    /\ Len(putLog) = 4
    /\ result.present

C20_AdmissionOrder ==
    [][/\ \A m, n \in 1..Len(pending') :
             (m < n /\ task'[pending'[n]] # "idle") => task'[pending'[m]] # "idle"
       /\ \A i \in ChunkIds :
             (task[i] = "idle" /\ task'[i] # "idle") =>
                 \A j \in ChunkIds : (task'[j] = "idle" /\ j \in PendingSet') => j > i
       /\ (pc' = "race" /\ \E i \in awaited' : task'[i] \in {"ok", "failed"})
             => awaitResult' # "pending"
       /\ (/\ pc = "race"
           /\ awaitResult = "ok"
           /\ <<pc, nextPending>>' # <<pc, nextPending>>
           /\ nextPending <= Len(pending))
          => (/\ task[pending[nextPending]] = "idle"
              /\ task'[pending[nextPending]] # "idle")]_vars

\* C20 witness: with K = 2 chunk 1 settled first and chunk 2 was admitted
\* while chunk 0, admitted first, is still in flight.
C20_Witness ==
    /\ concurrency = [kind |-> "int", v |-> 2]
    /\ pending = <<0, 1, 2>>
    /\ task[0] = "uploading"
    /\ task[1] = "ok"
    /\ task[2] = "uploading"

Settled == pc \in {"done", "rejected"}

\* The scheduler never waits on an in-flight set that is empty or whose
\* members have all settled; at Promise.race no member has settled at all.
NeverWaitsInVain ==
    (pc \in {"race", "all"} /\ awaitResult = "pending") =>
        /\ awaited \cap Unsettled # {}
        /\ pc = "race" => awaited \subseteq Unsettled

\* C21: if every transport request eventually settles, then for every K >= 1
\* and every pending set uploadVideo eventually settles; it resolves, with
\* the manifest result, only after every pending index was admitted and
\* completed, or it rejects; the scheduler never waits on an empty or
\* already-settled in-flight set.
C21_Termination ==
    /\ <>Settled
    /\ [](pc = "done" =>
            (result.present /\ \A i \in PendingSet : task[i] = "ok"))
    /\ []NeverWaitsInVain

\* The termination half of C21 alone: the call settles and never waits in
\* vain, whatever the pending tasks did.
C21_EventuallySettles ==
    /\ <>Settled
    /\ [](pc = "done" => (result.present /\ PendingSet \subseteq Started \ Unsettled))
    /\ []NeverWaitsInVain

\* The scheduler's own step: uploadVideo resumes from the await it is at.
SchedulerResumes ==
    /\ pc \in {"race", "all"}
    /\ <<pc, nextPending, manifest>>' # <<pc, nextPending, manifest>>

\* C22: once the scheduler has observed a chunk failure and uploadVideo has
\* rejected, no further pending index is admitted: the resumption that
\* observes the failure rejects and starts nothing, and after the rejection
\* no chunk task and no manifest upload is started; the only transport
\* requests still issued are those of tasks admitted before.
C22_NoAdmissionAfterRejection ==
    [][/\ (SchedulerResumes /\ awaitResult = "err") =>
             /\ pc' = "rejected"
             /\ error' = "UploadError"
             /\ Started' = Started
             /\ putLog' = putLog
       /\ pc = "rejected" =>
             /\ pc' = "rejected"
             /\ Started' = Started
             /\ nextPending' = nextPending
             /\ manifest' = manifest
             /\ ManifestPuts' = ManifestPuts
             /\ putLog' # putLog =>
                   \E i \in ChunkIds :
                       /\ task[i] = "encrypting"
                       /\ putLog' = Append(putLog, PutChunk(i))]_vars

\* C22 witness: the call rejected on a chunk failure with a pending index
\* never admitted, and a sibling admitted earlier has completed since.
C22_Witness ==
    /\ pc = "rejected"
    /\ error = "UploadError"
    /\ \E i \in PendingSet : task[i] = "idle"
    /\ Failed # {}
    /\ Succeeded # {}

\* What a successful chunk task adds to the notifications.
FreshNotes(i, bytes) ==
    <<[kind |-> "progress", index |-> i, bytesUploaded |-> bytes,
       early |-> FALSE, onRecord |-> TRUE]>>
    \o (IF overload = "options"
        THEN <<[kind |-> "chunkUploaded", index |-> i, bytesUploaded |-> bytes,
                early |-> FALSE, onRecord |-> TRUE]>>
        ELSE <<>>)

PlainSize(i) == Min((i + 1) * CHUNK_SIZE, totalSize) - i * CHUNK_SIZE

\* C23: a failed chunk does not cancel its siblings: the rejection of
\* uploadVideo leaves every admitted task as it is, a task in flight moves
\* only by its own steps and can still settle after the rejection, and when
\* it succeeds, after the rejection included, it appends its record and
\* fires its progress and per-chunk notifications.
C23_SiblingsNotCancelled ==
    [][/\ (pc # "rejected" /\ pc' = "rejected") =>
             (task' = task /\ executing' = executing)
       /\ \A i \in ChunkIds :
             /\ (i \in Unsettled /\ task'[i] # task[i]) =>
                   \/ task[i] = "encrypting" /\ task'[i] = "uploading"
                   \/ task[i] = "uploading" /\ task'[i] \in {"ok", "failed"}
             /\ (pc = "rejected" /\ task[i] = "uploading") =>
                   (ENABLED TaskSucceed(i) /\ ENABLED TaskFail(i))
             /\ (pc = "rejected" /\ task[i] = "uploading" /\ task'[i] = "ok") =>
                   /\ Len(uploadedChunks') = Len(uploadedChunks) + 1
                   /\ SpecRecordOk(uploadedChunks'[Len(uploadedChunks')], i)
                   /\ runningBytesUploaded' = runningBytesUploaded + PlainSize(i)
                   /\ notes' = notes \o FreshNotes(i, runningBytesUploaded')
                   /\ pc' = "rejected"]_vars

\* C23 witness: with K = 2 chunk 0 failed and the call rejected without
\* admitting chunk 2; chunk 1, in flight at the time, completed, is on record
\* and was notified.
C23_Witness ==
    /\ pc = "rejected"
    /\ concurrency = [kind |-> "int", v |-> 2]
    /\ pending = <<0, 1, 2>>
    /\ task = (0 :> "failed" @@ 1 :> "ok" @@ 2 :> "idle")
    /\ 1 \in Indices(uploadedChunks)
    /\ \E n \in 1..Len(notes) : notes[n].kind = "chunkUploaded" /\ notes[n].index = 1

\* The fresh notifications of kind k the caller has received for index i.
FreshNotesOf(k, i) ==
    {n \in 1..Len(notes) : notes[n].kind = k /\ notes[n].index = i /\ ~notes[n].early}

\* C24: the step in which a fresh chunk's upload succeeds appends the
\* chunk's record and adds the chunk's plaintext size to
\* runningBytesUploaded, and only then notifies: one progress notification
\* and, under the options overload, one per-chunk notification after it,
\* both for that index, both carrying the updated total and both seeing the
\* record in the list.  They are appended to what the caller has received
\* so far, so notifications follow the order of completion; no other step
\* of a started call notifies, and a fresh index has exactly one
\* notification of each kind once it succeeded and none before.
C24_SuccessNotifications ==
    [][/\ \A i \in ChunkIds :
            (task[i] = "uploading" /\ task'[i] = "ok") =>
               /\ Len(uploadedChunks') = Len(uploadedChunks) + 1
               /\ SubSeq(uploadedChunks', 1, Len(uploadedChunks)) = uploadedChunks
               /\ uploadedChunks'[Len(uploadedChunks')].index = i
               /\ uploadedChunks'[Len(uploadedChunks')].size = PlainSize(i)
               /\ runningBytesUploaded' = runningBytesUploaded + PlainSize(i)
               /\ notes' = notes \o FreshNotes(i, runningBytesUploaded')
       /\ (pc # "init" /\ notes' # notes) =>
             \E i \in ChunkIds : task[i] = "uploading" /\ task'[i] = "ok"
       /\ \A n \in 1..Len(notes') : notes'[n].onRecord
       /\ \A i \in ChunkIds \ Indices(existingChunks') :
             /\ Cardinality(FreshNotesOf("progress", i)') = IF task'[i] = "ok" THEN 1 ELSE 0
             /\ Cardinality(FreshNotesOf("chunkUploaded", i)')
                   = IF task'[i] = "ok" /\ overload' = "options" THEN 1 ELSE 0
             /\ \A a \in FreshNotesOf("progress", i)' :
                   \A b \in FreshNotesOf("chunkUploaded", i)' : b = a + 1]_vars

\* Two fresh chunks complete against their index order under the options
\* overload: chunk 1's pair of notifications precedes chunk 0's.
C24_Witness ==
    /\ overload = "options" /\ existingChunks = <<>> /\ totalSize = 2 * CHUNK_SIZE
    /\ Len(notes) = 4
    /\ notes[1].kind = "progress" /\ notes[1].index = 1
    /\ notes[2].kind = "chunkUploaded" /\ notes[2].index = 1
    /\ notes[2].bytesUploaded = CHUNK_SIZE
    /\ notes[3].kind = "progress" /\ notes[3].index = 0
    /\ notes[4].kind = "chunkUploaded" /\ notes[4].bytesUploaded = 2 * CHUNK_SIZE

\* C25: the step in which a chunk's upload fails, because the last attempt
\* threw, because the response was not a success, or because the response
\* carried no blob id, changes neither the list of records nor
\* runningBytesUploaded and sends no notification; afterwards a fresh index
\* whose task failed has no record and no notification of either kind.
C25_FailureLeavesSession ==
    [][\A i \in ChunkIds :
          /\ Raises(i) =>
                /\ failKind'[i] \in {"network", "timeout", "status", "noBlobId"}
                /\ uploadedChunks' = uploadedChunks
                /\ runningBytesUploaded' = runningBytesUploaded
                /\ notes' = notes
          /\ (task'[i] = "failed" /\ i \notin Indices(existingChunks')) =>
                /\ \A n \in 1..Len(uploadedChunks') : uploadedChunks'[n].index # i
                /\ \A n \in 1..Len(notes') : notes'[n].index # i]_vars

\* Chunk 0 failed on a response without a blob id after chunk 1 had
\* succeeded: the session holds chunk 1's bytes only.
C25_Witness ==
    /\ existingChunks = <<>> /\ totalSize = 2 * CHUNK_SIZE
    /\ task[0] = "failed" /\ failKind[0] = "noBlobId" /\ task[1] = "ok"
    /\ Indices(uploadedChunks) = {1}
    /\ runningBytesUploaded = CHUNK_SIZE

\* The positions of the progress notifications, replayed and fresh.
ProgressNotes == {n \in 1..Len(notes) : notes[n].kind = "progress"}
ExistingCorrect ==
    /\ \A n \in 1..Len(existingChunks) :
          /\ existingChunks[n].index \in 0..(N - 1)
          /\ SpecRecordOk(existingChunks[n], existingChunks[n].index)
    /\ \A a, b \in 1..Len(existingChunks) :
          existingChunks[a].index = existingChunks[b].index => a = b

\* C26: the bytesUploaded values of successive progress notifications
\* never decrease, and when the call has succeeded on correct existing
\* records the last progress notification reports totalSize.
C26_ProgressMonotoneToTotal ==
    /\ \A a, b \in ProgressNotes :
          a < b => notes[a].bytesUploaded <= notes[b].bytesUploaded
    /\ (pc = "done" /\ ExistingCorrect /\ ProgressNotes # {}) =>
          \A n \in ProgressNotes :
             (\A m \in ProgressNotes : m <= n) => notes[n].bytesUploaded = totalSize

\* The part of C26 that does hold: the reported values never decrease and
\* never exceed totalSize.
C26_ProgressMonotone ==
    \A a, b \in ProgressNotes :
       a < b => /\ notes[a].bytesUploaded <= notes[b].bytesUploaded
                /\ notes[b].bytesUploaded <= totalSize

\* Without a swallowed failure a successful call does end on totalSize.
C26_TotalWhenAllSucceeded ==
    (pc = "done" /\ Failed = {} /\ ProgressNotes # {}) =>
       \A n \in ProgressNotes :
          (\A m \in ProgressNotes : m <= n) => notes[n].bytesUploaded = totalSize

\* The chunk downloads downloadRange has requested, in request order.
ChunkGets == SelectSeq(dlLog, LAMBDA r : r.kind = "chunk")

\* C27: downloadRange requests the overlapping chunks one at a time in
\* ascending index order: the requests made so far are those of the first
\* overlapping chunks in order, every one but possibly the last has
\* completed, a step requests at most one more chunk and only when all
\* earlier ones have completed, a failing download fails the call, and a
\* failed call requests nothing more.
C27_SequentialDownloads ==
    [][/\ Len(ChunkGets') <= Len(overlapping')
       /\ \A n \in 1..Len(ChunkGets') : ChunkGets'[n] = GetChunk(overlapping'[n].blobId)
       /\ \A a, b \in 1..Len(overlapping') :
             a < b => overlapping'[a].index < overlapping'[b].index
       /\ Len(buffers') <= Len(ChunkGets') /\ Len(ChunkGets') <= Len(buffers') + 1
       /\ (dpc' = "chunk") => Len(ChunkGets') = Len(buffers') + 1
       /\ (dpc' = "returned" /\ dlResult'.chunksUsed > 0) =>
             Len(buffers') = Len(overlapping') /\ Len(ChunkGets') = Len(overlapping')
       /\ (ChunkGets' # ChunkGets) =>
             /\ Len(ChunkGets') = Len(ChunkGets) + 1
             /\ Len(buffers') = Len(ChunkGets)
             /\ dpc' = "chunk"
       /\ (dpc = "chunk" /\ dpc' # "chunk" /\ buffers' = buffers) => dpc' = "failed"
       /\ (dpc = "failed") => (dpc' = "failed" /\ dlLog' = dlLog /\ buffers' = buffers)]_vars

\* The second of three overlapping chunks failed to download: the call has
\* failed and the third chunk was never requested.
C27_Witness ==
    /\ dpc = "failed" /\ Len(overlapping) = 3
    /\ Len(buffers) = 1 /\ Len(ChunkGets) = 2

\* The manifest downloadRange read is contiguous over the source and every
\* blob it names holds the plaintext bytes of its record's interval.
PlainContiguous(m) ==
    /\ m.totalSize = totalSize
    /\ CompleteManifest(m)
    /\ \A n \in 1..Len(m.chunks) :
          store[m.chunks[n].blobId] = SourceSlice(m.chunks[n].offsetStart, m.chunks[n].offsetEnd)

\* C28: over a contiguous manifest of plaintext blobs, for
\* 0 <= startByte < totalSize and endByte >= startByte, also beyond
\* totalSize, downloadRange returns the source bytes
\* [startByte, min(endByte, totalSize)): that many bytes, cut from the
\* concatenation of the downloaded chunks at startByte minus the first
\* overlapping chunk's offsetStart.
C28_RangeBytes ==
    (/\ dpc = "returned"
     /\ PlainContiguous(dlManifest)
     /\ startByte.v < totalSize)
    => LET ce == Min(endByte.v, totalSize)
           len == ce - startByte.v
       IN /\ Len(dlResult.data) = len
          /\ dlResult.data = [j \in 1..len |-> PlainByte(startByte.v + j - 1)]
          /\ len > 0 =>
                LET from == startByte.v - overlapping[1].offsetStart
                IN /\ from \in 0..(overlapping[1].size - 1)
                   /\ dlResult.data = SubSeq(Concat(buffers), from + 1, from + len)

\* A range that starts inside the second chunk and ends beyond the object:
\* two chunks are used and the two last bytes are returned.
C28_Witness ==
    /\ dpc = "returned" /\ PlainContiguous(dlManifest)
    /\ totalSize = 2 * CHUNK_SIZE + 1
    /\ startByte.v = CHUNK_SIZE + 1 /\ endByte.v = totalSize + 1
    /\ dlResult.chunksUsed = 2
    /\ dlResult.data = <<PlainByte(CHUNK_SIZE + 1), PlainByte(2 * CHUNK_SIZE)>>

\* An earlier end inside a chunk: the byte after the range is not returned.
C28_WitnessInner ==
    /\ dpc = "returned" /\ PlainContiguous(dlManifest)
    /\ startByte.v = 1 /\ endByte.v = CHUNK_SIZE + 1 /\ totalSize > endByte.v + 1
    /\ Len(dlResult.data) = CHUNK_SIZE

\* The events of the fetchWithRetry call of one kind, by position.
FrEvents(k) == {n \in 1..Len(frLog) : frLog[n].kind = k}

\* C29: fetchWithRetry with retry count R makes at most R + 1 attempts,
\* one at a time: every attempt but the latest has thrown and was followed
\* by exactly one onRetry call, carrying the attempt's number counted from
\* 1, maxRetries = R and the attempt's error, then by the back-off wait and
\* only then by the next attempt.  The call returns the response of the
\* first attempt that does not throw, whatever its status; it fails only
\* after R + 1 throwing attempts and R onRetry calls, with the error of the
\* last attempt, for which onRetry is not called.
C29_RetrySchedule ==
    /\ Cardinality(FrEvents("fetch")) <= frRetries + 1
    /\ Cardinality(FrEvents("onRetry")) <= frRetries
    /\ \A n \in 1..Len(frLog) :
          /\ n % 3 = 1 => frLog[n] = FetchEvent((n - 1) \div 3)
          /\ n % 3 = 2 => /\ frLog[n].kind = "onRetry"
                          /\ frLog[n].attempt = (n + 1) \div 3
                          /\ frLog[n].attempt \in 1..frRetries
                          /\ frLog[n].maxRetries = frRetries
                          /\ frLog[n].error.kind \in {"network", "timeout"}
                          /\ frLog[n].error.at = frLog[n - 1].attempt
          /\ n % 3 = 0 => frLog[n].kind = "wait"
    /\ frPc = "attempt" => Len(frLog) = 3 * frAttempt + 1
    /\ frPc = "waiting" => Len(frLog) = 3 * (frAttempt + 1)
    /\ frPc = "returned" =>
          /\ frResult.kind = "response" /\ frResult.response \in {"ok", "notOk"}
          /\ frResult.at = frAttempt
          /\ Len(frLog) = 3 * frAttempt + 1
    /\ frPc = "failed" =>
          /\ frResult.kind = "error"
          /\ frResult.error.at = frRetries /\ frResult.error.kind \in {"network", "timeout"}
          /\ Cardinality(FrEvents("fetch")) = frRetries + 1
          /\ Cardinality(FrEvents("onRetry")) = frRetries
          /\ frLog[Len(frLog)] = FetchEvent(frRetries)

\* With R = 2 every attempt threw, the last one by timing out: three
\* fetches, two onRetry calls, and the call failed with the timeout.
C29_Witness ==
    /\ frPc = "failed" /\ frRetries = 2
    /\ Cardinality(FrEvents("fetch")) = 3 /\ Cardinality(FrEvents("onRetry")) = 2
    /\ frLog[2].error.kind = "network" /\ frLog[5].attempt = 2
    /\ frResult.error = [kind |-> "timeout", at |-> 2]

\* A non-success response on the second attempt is returned, not retried.
C29_WitnessReturned ==
    /\ frPc = "returned" /\ frRetries = 3 /\ frResult.at = 1
    /\ frResult.response = "notOk"

\* C30: blobExists never fails: once the HEAD request has settled the call
\* has returned, with true when the response was a success and with false
\* when the response was not a success, when the request threw and when
\* it timed out.
C30_BlobExistsTotal ==
    /\ bePc \in {"idle", "head", "returned"}
    /\ bePc = "returned" =>
          /\ beOutcome \in {"ok", "notOk", "network", "timeout"}
          /\ beResult = (beOutcome = "ok")
    /\ bePc # "returned" => beOutcome = "none"

\* The existence check timed out and blobExists returned false.
C30_Witness ==
    bePc = "returned" /\ beOutcome = "timeout" /\ beResult = FALSE

\* A success response: blobExists returned true.
C30_WitnessFound ==
    bePc = "returned" /\ beOutcome = "ok" /\ beResult = TRUE

\* The positions in the client's log of the callbacks of one kind.
ClientEvents(k) == {n \in 1..Len(clientLog) : clientLog[n].kind = k}
ClientEventsOf(k, i) == {n \in ClientEvents(k) : clientLog[n].index = i}

\* C31: in TaiClient.uploadVideo onUploadStart fires exactly once and
\* first, before any request and any notification of the call; the
\* client's onChunkUploaded fires once for every chunk uploaded by the call
\* and for no other, right after the caller's own onChunkUploaded for that
\* chunk; onUploadComplete fires at most once, only when the call has
\* resolved after a successful manifest upload, with the blob id that
\* upload returned, and not at all when the call rejects.
C31_ClientEventOrder ==
    /\ cpc = "init" => (clientLog = <<>> /\ putLog = <<>> /\ notes = <<>>)
    /\ cpc # "init" =>
          /\ ClientEvents("uploadStart") = {1}
          /\ clientLog[1].first
    /\ \A i \in ChunkIds :
          /\ Cardinality(ClientEventsOf("chunkUploaded", i)) = IF task[i] = "ok" THEN 1 ELSE 0
          /\ Cardinality(ClientEventsOf("callerChunkUploaded", i))
                = Cardinality(FreshNotesOf("chunkUploaded", i))
          /\ \A n \in ClientEventsOf("chunkUploaded", i) :
                /\ n > 1
                /\ clientLog[n - 1] = ClientEvent("callerChunkUploaded", i)
    /\ Cardinality(ClientEvents("uploadComplete")) <= 1
    /\ \A n \in ClientEvents("uploadComplete") :
          /\ cpc = "returned" /\ pc = "done"
          /\ ManifestPuts # {} /\ manifestBlob = manifest /\ manifest.present
          /\ clientLog[n].request = PutManifest
          /\ clientLog[n].request = result.request
          /\ n = Len(clientLog)
    /\ cpc = "returned" => ClientEvents("uploadComplete") # {}
    /\ (pc = "rejected" \/ cpc = "rejected") => ClientEvents("uploadComplete") = {}

\* Two chunks uploaded through the client, chunk 1 first, and the call
\* resolved: start, the relayed callbacks of chunk 1 and of chunk 0, complete.
C31_Witness ==
    /\ cpc = "returned" /\ totalSize = 2 * CHUNK_SIZE /\ existingChunks = <<>>
    /\ Len(clientLog) = 8
    /\ clientLog[1].kind = "uploadStart"
    /\ clientLog[3] = ClientEvent("callerChunkUploaded", 1)
    /\ clientLog[4] = ClientEvent("chunkUploaded", 1)
    /\ clientLog[7] = ClientEvent("chunkUploaded", 0)
    /\ clientLog[8].kind = "uploadComplete"

\* The client call rejected on a failed chunk and a sibling's upload was
\* still relayed to the client: no onUploadComplete.
C31_WitnessRejected ==
    /\ cpc = "rejected" /\ error = "UploadError"
    /\ ClientEvents("chunkUploaded") # {}
    /\ ClientEvents("uploadComplete") = {}
====
